---- MODULE Spec2Model ----
(***************************************************************************)
(* Connect-four engine of main.py: the board functions, win detection,     *)
(* the heuristic, minimax with alpha-beta pruning and the transposition    *)
(* table, and the main loop that alternates Player clicks and AI turns.    *)
(***************************************************************************)
EXTENDS Integers, Sequences, FiniteSets, TLC

VARIABLES board, game_over, turn, search_depth, transposition_table,
          win_coords, result, pc, plies, last_call, prev_call, runs

vars == <<board, game_over, turn, search_depth, transposition_table,
          win_coords, result, pc, plies, last_call, prev_call, runs>>

----------------------------------------------------------------------------
(* Program constants                                                       *)

ROW_COUNT == 6
COLUMN_COUNT == 7
PLAYER == 0
AI == 1
EMPTY == 0
PLAYER_PIECE == 1
AI_PIECE == 2
WINDOW_LENGTH == 4

\* float('inf'): compared only, never added to; larger than any heuristic sum
\* (69 windows of at most 1000 plus 6 centre cells of 6).
inf == 1000000

\* Python's None as a column; winning_move's None is the empty list NoCells.
None == -1
NoCells == <<>>

DIFFICULTY_DEPTHS == {2, 4, 6}

Rows == 0 .. (ROW_COUNT - 1)
Cols == 0 .. (COLUMN_COUNT - 1)

----------------------------------------------------------------------------
(* Board functions                                                         *)

create_board == [r \in Rows |-> [c \in Cols |-> 0]]

drop_piece(b, row, col, piece) == [b EXCEPT ![row][col] = piece]

is_valid_location(b, col) == b[ROW_COUNT - 1][col] = 0

\* (mutant) the rows scanned from the top
get_next_open_row_top(b, col) ==
    IF \E r \in Rows : b[r][col] = 0
    THEN CHOOSE r \in Rows : b[r][col] = 0 /\ \A q \in (r + 1) .. (ROW_COUNT - 1) : b[q][col] # 0
    ELSE None

\* for r in range(ROW_COUNT): first r with an empty cell; falls off the loop
\* (None) on a full column.
get_next_open_row(b, col) ==
    IF \E r \in Rows : b[r][col] = 0
    THEN CHOOSE r \in Rows : b[r][col] = 0 /\ \A q \in 0 .. (r - 1) : b[q][col] # 0
    ELSE None

RECURSIVE valid_from(_, _)
valid_from(b, col) ==
    IF col >= COLUMN_COUNT THEN <<>>
    ELSE IF is_valid_location(b, col)
         THEN <<col>> \o valid_from(b, col + 1)
         ELSE valid_from(b, col + 1)

get_valid_locations(b) == valid_from(b, 0)

----------------------------------------------------------------------------
(* winning_move: four scans, each "for c ...: for r ...:", first hit wins  *)

\* k-th (1-based) pair of a loop nest "for c in c0..c0+nc-1: for r in r0..r0+nr-1"
ScanC(k, c0, nr) == c0 + ((k - 1) \div nr)
ScanR(k, r0, nr) == r0 + ((k - 1) % nr)

horizontal_scan ==
    [k \in 1 .. ((COLUMN_COUNT - 3) * ROW_COUNT) |->
        LET c == ScanC(k, 0, ROW_COUNT)  r == ScanR(k, 0, ROW_COUNT)
        IN [i \in 1 .. 4 |-> <<r, c + (i - 1)>>]]

vertical_scan ==
    [k \in 1 .. (COLUMN_COUNT * (ROW_COUNT - 3)) |->
        LET c == ScanC(k, 0, ROW_COUNT - 3)  r == ScanR(k, 0, ROW_COUNT - 3)
        IN [i \in 1 .. 4 |-> <<r + (i - 1), c>>]]

positive_scan ==
    [k \in 1 .. ((COLUMN_COUNT - 3) * (ROW_COUNT - 3)) |->
        LET c == ScanC(k, 0, ROW_COUNT - 3)  r == ScanR(k, 0, ROW_COUNT - 3)
        IN [i \in 1 .. 4 |-> <<r + (i - 1), c + (i - 1)>>]]

\* (mutant) the negative diagonals started from rows 3 and 4 only
negative_scan_short ==
    [k \in 1 .. ((COLUMN_COUNT - 3) * (ROW_COUNT - 4)) |->
        LET c == ScanC(k, 0, ROW_COUNT - 4)  r == ScanR(k, 3, ROW_COUNT - 4)
        IN [i \in 1 .. 4 |-> <<r - (i - 1), c + (i - 1)>>]]

negative_scan ==
    [k \in 1 .. ((COLUMN_COUNT - 3) * (ROW_COUNT - 3)) |->
        LET c == ScanC(k, 0, ROW_COUNT - 3)  r == ScanR(k, 3, ROW_COUNT - 3)
        IN [i \in 1 .. 4 |-> <<r - (i - 1), c + (i - 1)>>]]

win_scan == horizontal_scan \o vertical_scan \o positive_scan \o negative_scan

\* all(board[...] == piece for i in range(4))
all_piece(b, cells, piece) ==
    /\ b[cells[1][1]][cells[1][2]] = piece
    /\ b[cells[2][1]][cells[2][2]] = piece
    /\ b[cells[3][1]][cells[3][2]] = piece
    /\ b[cells[4][1]][cells[4][2]] = piece

\* The first window of the scan order that is filled with piece is returned.
winning_move(b, piece) ==
    IF \E k \in 1 .. Len(win_scan) : all_piece(b, win_scan[k], piece)
    THEN win_scan[CHOOSE k \in 1 .. Len(win_scan) :
                     /\ all_piece(b, win_scan[k], piece)
                     /\ \A j \in 1 .. (k - 1) : ~all_piece(b, win_scan[j], piece)]
    ELSE NoCells

----------------------------------------------------------------------------
(* Heuristic                                                               *)

\* list.count(x)
count(list, x) == Cardinality({i \in 1 .. Len(list) : list[i] = x})

\* window.count(x) for a window of WINDOW_LENGTH cells
window_count(window, x) ==
    (IF window[1] = x THEN 1 ELSE 0) + (IF window[2] = x THEN 1 ELSE 0)
    + (IF window[3] = x THEN 1 ELSE 0) + (IF window[4] = x THEN 1 ELSE 0)

evaluate_window(window, piece) ==
    LET opp_piece == IF piece = AI_PIECE THEN PLAYER_PIECE ELSE AI_PIECE
        count_piece == window_count(window, piece)
        count_opp == window_count(window, opp_piece)
        count_empty == window_count(window, EMPTY)
        own == IF count_piece = 4 THEN 1000
               ELSE IF count_piece = 3 /\ count_empty = 1 THEN 50
               ELSE IF count_piece = 2 /\ count_empty = 2 THEN 10
               ELSE 0
        opp == IF count_opp = 3 /\ count_empty = 1 THEN 80 ELSE 0
    IN own - opp

\* The windows score_position visits, as cell lists, in its loop order.
horizontal_windows ==
    [k \in 1 .. (ROW_COUNT * (COLUMN_COUNT - 3)) |->
        LET r == (k - 1) \div (COLUMN_COUNT - 3)  c == (k - 1) % (COLUMN_COUNT - 3)
        IN [i \in 1 .. WINDOW_LENGTH |-> <<r, c + (i - 1)>>]]

vertical_windows ==
    [k \in 1 .. (COLUMN_COUNT * (ROW_COUNT - 3)) |->
        LET c == (k - 1) \div (ROW_COUNT - 3)  r == (k - 1) % (ROW_COUNT - 3)
        IN [i \in 1 .. WINDOW_LENGTH |-> <<r + (i - 1), c>>]]

positive_windows ==
    [k \in 1 .. ((ROW_COUNT - 3) * (COLUMN_COUNT - 3)) |->
        LET r == (k - 1) \div (COLUMN_COUNT - 3)  c == (k - 1) % (COLUMN_COUNT - 3)
        IN [i \in 1 .. WINDOW_LENGTH |-> <<r + (i - 1), c + (i - 1)>>]]

negative_windows ==
    [k \in 1 .. ((ROW_COUNT - 3) * (COLUMN_COUNT - 3)) |->
        LET r == (k - 1) \div (COLUMN_COUNT - 3)  c == (k - 1) % (COLUMN_COUNT - 3)
        IN [i \in 1 .. WINDOW_LENGTH |-> <<r + 3 - (i - 1), c + (i - 1)>>]]

score_windows ==
    horizontal_windows \o vertical_windows \o positive_windows \o negative_windows

window_of(b, cells) ==
    <<b[cells[1][1]][cells[1][2]], b[cells[2][1]][cells[2][2]],
      b[cells[3][1]][cells[3][2]], b[cells[4][1]][cells[4][2]]>>

\* score += evaluate_window(window, piece) over windows lo..hi of the list
\* (the sum is split in halves to keep the evaluation shallow)
RECURSIVE sum_windows(_, _, _, _)
sum_windows(b, piece, lo, hi) ==
    IF lo = hi
    THEN evaluate_window(window_of(b, score_windows[lo]), piece)
    ELSE LET mid == (lo + hi) \div 2
         IN sum_windows(b, piece, lo, mid) + sum_windows(b, piece, mid + 1, hi)

score_position(b, piece) ==
    LET center_array == [r \in 1 .. ROW_COUNT |-> b[r - 1][COLUMN_COUNT \div 2]]
        center_count == count(center_array, piece)
    IN center_count * 6 + sum_windows(b, piece, 1, Len(score_windows))

\* (mutant) the Player's line not looked for
is_terminal_node_ai_only(b) ==
    \/ winning_move(b, AI_PIECE) # NoCells
    \/ Len(get_valid_locations(b)) = 0

is_terminal_node(b) ==
    \/ winning_move(b, PLAYER_PIECE) # NoCells
    \/ winning_move(b, AI_PIECE) # NoCells
    \/ Len(get_valid_locations(b)) = 0

----------------------------------------------------------------------------
(* Minimax with alpha-beta pruning and the transposition table             *)
(*                                                                         *)
(* The search state st threaded through the recursion is the module-level  *)
(* mutable state the calls share: tt (transposition_table), rng (the state *)
(* of the random module's generator), and two observation fields that the  *)
(* code does not read: calls (minimax invocations so far) and copies (the  *)
(* b_copy boards built so far).                                            *)

EmptyTable == [k \in {} |-> <<None, 0>>]

\* tuple(board.reshape(ROW_COUNT * COLUMN_COUNT).tolist()): row-major cells
board_to_tuple(b) ==
    [i \in 1 .. (ROW_COUNT * COLUMN_COUNT) |->
        b[(i - 1) \div COLUMN_COUNT][(i - 1) % COLUMN_COUNT]]

\* random.choice(seq): any element, decided by the generator's state, which
\* the call advances.  RngStates bounds the generator states modelled.
RngStates == 2
random_choice(seq, rng) == seq[(rng % Len(seq)) + 1]
next_rng(rng) == (rng + 1) % RngStates

max(a, b) == IF a >= b THEN a ELSE b
min(a, b) == IF a <= b THEN a ELSE b

better_max(new_score, value) == new_score > value
better_min(new_score, value) == new_score < value

\* What the base case returns and whether it writes the table (it does not).
base_store(tt, board_key, res) == tt

\* (mutant) the result returned without being stored
store_skipped(tt, board_key, res) == tt

\* transposition_table[board_key] = (column, value)
store(tt, board_key, res) == (board_key :> res) @@ tt

\* if board_key in transposition_table
cached(tt, board_key) == board_key \in DOMAIN tt

RECURSIVE minimax(_, _, _, _, _, _)
RECURSIVE max_loop(_, _, _, _, _, _, _, _, _)
RECURSIVE min_loop(_, _, _, _, _, _, _, _, _)

\* for col in valid_locations (maximizing branch), from index i on
max_loop(b, depth, alpha, beta, valid_locations, i, value, column, st) ==
    IF i > Len(valid_locations) THEN [value |-> value, column |-> column, st |-> st]
    ELSE
      LET col == valid_locations[i]
          row == get_next_open_row(b, col)
          b_copy == drop_piece(b, row, col, AI_PIECE)
          sub == minimax(b_copy, depth - 1, alpha, beta, FALSE,
                         [st EXCEPT !.copies = @ \cup {b_copy}])
          new_score == sub.score
          value1 == IF better_max(new_score, value) THEN new_score ELSE value
          column1 == IF better_max(new_score, value) THEN col ELSE column
          alpha1 == max(alpha, value1)
      IN IF alpha1 >= beta
         THEN [value |-> value1, column |-> column1, st |-> sub.st]
         ELSE max_loop(b, depth, alpha1, beta, valid_locations, i + 1,
                       value1, column1, sub.st)

\* for col in valid_locations (minimizing branch), from index i on
min_loop(b, depth, alpha, beta, valid_locations, i, value, column, st) ==
    IF i > Len(valid_locations) THEN [value |-> value, column |-> column, st |-> st]
    ELSE
      LET col == valid_locations[i]
          row == get_next_open_row(b, col)
          b_copy == drop_piece(b, row, col, PLAYER_PIECE)
          sub == minimax(b_copy, depth - 1, alpha, beta, TRUE,
                         [st EXCEPT !.copies = @ \cup {b_copy}])
          new_score == sub.score
          value1 == IF better_min(new_score, value) THEN new_score ELSE value
          column1 == IF better_min(new_score, value) THEN col ELSE column
          beta1 == min(beta, value1)
      IN IF alpha >= beta1
         THEN [value |-> value1, column |-> column1, st |-> sub.st]
         ELSE min_loop(b, depth, alpha, beta1, valid_locations, i + 1,
                       value1, column1, sub.st)

\* (mutant) the two infinities the other way round
base_case_swapped(b, is_terminal) ==
    IF is_terminal
    THEN IF winning_move(b, AI_PIECE) # NoCells THEN <<None, -inf>>
         ELSE IF winning_move(b, PLAYER_PIECE) # NoCells THEN <<None, inf>>
         ELSE <<None, 0>>
    ELSE <<None, score_position(b, AI_PIECE)>>

\* if depth == 0 or is_terminal: the four returns of the base case
base_case(b, is_terminal) ==
    IF is_terminal
    THEN IF winning_move(b, AI_PIECE) # NoCells THEN <<None, inf>>
         ELSE IF winning_move(b, PLAYER_PIECE) # NoCells THEN <<None, -inf>>
         ELSE <<None, 0>>
    ELSE <<None, score_position(b, AI_PIECE)>>

minimax(b, depth, alpha, beta, maximizingPlayer, st0) ==
    LET st == [st0 EXCEPT !.calls = @ + 1]
        valid_locations == get_valid_locations(b)
        is_terminal == is_terminal_node(b)
        board_key == <<board_to_tuple(b), depth, maximizingPlayer>>
    IN IF cached(st.tt, board_key)
       THEN [col |-> st.tt[board_key][1], score |-> st.tt[board_key][2], st |-> st]
       ELSE IF depth = 0 \/ is_terminal
       THEN LET res == base_case(b, is_terminal)
            IN [col |-> res[1], score |-> res[2],
                st |-> [st EXCEPT !.tt = base_store(@, board_key, res)]]
       ELSE IF maximizingPlayer
       THEN LET column == random_choice(valid_locations, st.rng)
                r == max_loop(b, depth, alpha, beta, valid_locations, 1, -inf, column,
                              [st EXCEPT !.rng = next_rng(@)])
            IN [col |-> r.column, score |-> r.value,
                st |-> [r.st EXCEPT !.tt = store(@, board_key, <<r.column, r.value>>)]]
       ELSE LET column == random_choice(valid_locations, st.rng)
                r == min_loop(b, depth, alpha, beta, valid_locations, 1, inf, column,
                              [st EXCEPT !.rng = next_rng(@)])
            IN [col |-> r.column, score |-> r.value,
                st |-> [r.st EXCEPT !.tt = store(@, board_key, <<r.column, r.value>>)]]

\* The search state of a call made with table tt and generator state rng.
search_state(tt, rng) == [tt |-> tt, rng |-> rng, calls |-> 0, copies |-> {}]

\* What one minimax invocation was given and what it gave back.
call_record(b, depth, alpha, beta, maximizingPlayer, tt_in, rng, r) ==
    [board |-> b, depth |-> depth, alpha |-> alpha, beta |-> beta,
     maximizing |-> maximizingPlayer, tt_in |-> tt_in, rng |-> rng, tt_out |-> r.st.tt,
     col |-> r.col, score |-> r.score, calls |-> r.st.calls,
     copies |-> r.st.copies]

NoCall ==
    [board |-> create_board, depth |-> 0, alpha |-> 0, beta |-> 0,
     maximizing |-> FALSE, tt_in |-> EmptyTable, rng |-> 0, tt_out |-> EmptyTable,
     col |-> None, score |-> 0, calls |-> 0, copies |-> {}]

----------------------------------------------------------------------------
(* Main loop                                                               *)

\* Bounds of the model: Player moves explored per game, and the deepest
\* difficulty offered by the menu.
MaxMoves == 3
MaxSearchDepth == 2

\* show_difficulty_menu(): the depth of the button clicked
DepthChoices == {d \in DIFFICULTY_DEPTHS : d <= MaxSearchDepth}

\* (mutant) the clear forgotten
clear_table_kept(tt) == tt

\* transposition_table.clear()
clear_table(tt) == EmptyTable

Init ==
    /\ board = create_board
    /\ game_over = FALSE
    /\ search_depth \in DepthChoices
    /\ turn \in {PLAYER, AI}
    /\ transposition_table = EmptyTable
    /\ win_coords = NoCells
    /\ result = ""
    /\ pc = "loop"
    /\ plies = 0
    /\ last_call = NoCall
    /\ prev_call = NoCall
    /\ runs = 0

\* if game_over: result, as show_game_over_menu(result) displays it
game_result(b) ==
    IF winning_move(b, PLAYER_PIECE) # NoCells THEN "Player wins!"
    ELSE IF winning_move(b, AI_PIECE) # NoCells THEN "AI wins!"
    ELSE "Draw"

\* MOUSEBUTTONDOWN at column col (posx // SQUARESIZE) in the main loop; a
\* winning drop sets game_over, and the same iteration opens the menu.
PlayerClick(col) ==
    /\ pc = "loop"
    /\ plies < MaxMoves
    /\ IF ~game_over /\ turn = PLAYER /\ is_valid_location(board, col)
       THEN LET row == get_next_open_row(board, col)
                b1 == drop_piece(board, row, col, PLAYER_PIECE)
                coords == winning_move(b1, PLAYER_PIECE)
            IN /\ board' = b1
               /\ win_coords' = coords
               /\ game_over' = (coords # NoCells)
               /\ result' = IF coords # NoCells THEN game_result(b1) ELSE result
               /\ turn' = (turn + 1) % 2
               /\ plies' = plies + 1
       ELSE UNCHANGED <<board, win_coords, game_over, result, turn, plies>>
    /\ UNCHANGED <<search_depth, transposition_table, pc, last_call,
                   prev_call, runs>>

\* if turn == AI and not game_over: one AI decision and its drop
\* (r ranges over the one result of the call, so that it is computed once)
AITurn(seed) ==
    /\ pc = "loop"
    /\ turn = AI
    /\ ~game_over
    /\ \E r \in {minimax(board, search_depth, -inf, inf, TRUE,
                         search_state(clear_table(transposition_table), seed))} :
         LET valid_locations == get_valid_locations(board)
         IN /\ transposition_table' = r.st.tt
            /\ last_call' = call_record(board, search_depth, -inf, inf, TRUE,
                                        clear_table(transposition_table), seed, r)
            /\ IF r.col = None /\ Len(valid_locations) = 0
               THEN \* random.choice([]) raises IndexError
                    /\ pc' = "crashed"
                    /\ UNCHANGED <<board, win_coords, game_over, result, turn>>
               ELSE LET col == IF r.col = None
                               THEN random_choice(valid_locations, r.st.rng)
                               ELSE r.col
                    IN /\ pc' = pc
                       /\ IF is_valid_location(board, col)
                          THEN LET row == get_next_open_row(board, col)
                                   b1 == drop_piece(board, row, col, AI_PIECE)
                                   coords == winning_move(b1, AI_PIECE)
                               IN /\ board' = b1
                                  /\ win_coords' = coords
                                  /\ game_over' = (coords # NoCells)
                                  /\ result' = IF coords # NoCells
                                               THEN game_result(b1) ELSE result
                                  /\ turn' = (turn + 1) % 2
                          ELSE UNCHANGED <<board, win_coords, game_over, result, turn>>
    /\ UNCHANGED <<search_depth, plies, prev_call, runs>>

\* show_game_over_menu(result) answered "play": a new game
PlayAgain(first, depth) ==
    /\ pc = "loop"
    /\ game_over
    /\ board' = create_board
    /\ game_over' = FALSE
    /\ transposition_table' = clear_table(transposition_table)
    /\ turn' = first
    /\ search_depth' = depth
    /\ result' = ""
    /\ win_coords' = NoCells
    /\ plies' = 0
    /\ last_call' = NoCall
    /\ UNCHANGED <<pc, prev_call, runs>>

\* show_game_over_menu(result) answered "exit": pygame.quit(); sys.exit()
ExitGame ==
    /\ pc = "loop"
    /\ game_over
    /\ pc' = "exit"
    /\ UNCHANGED <<board, game_over, turn, search_depth, transposition_table,
                   win_coords, result, plies, last_call, prev_call, runs>>

\* pygame.QUIT: pygame.quit(); sys.exit()
Quit ==
    /\ pc = "loop"
    /\ pc' = "quit"
    /\ UNCHANGED <<board, game_over, turn, search_depth, transposition_table,
                   win_coords, result, plies, last_call, prev_call, runs>>

Next ==
    \/ \E col \in Cols : PlayerClick(col)
    \/ \E seed \in 0 .. (RngStates - 1) : AITurn(seed)
    \/ \E first \in {PLAYER, AI}, depth \in DepthChoices : PlayAgain(first, depth)
    \/ ExitGame
    \/ Quit

Spec == Init /\ [][Next]_vars

----------------------------------------------------------------------------
(* Late-game positions of the main loop                                    *)
(*                                                                         *)
(* Two games against the depth-2 AI in which neither side ever completes a *)
(* line: the Player's clicks are listed, the AI's replies are the ones its *)
(* own search gives.  SpecEndgame starts the loop MaxMoves clicks before   *)
(* the end of each.                                                        *)

pieces(b, piece) == Cardinality({rc \in Rows \X Cols : b[rc[1]][rc[2]] = piece})

board_full(b) == Len(get_valid_locations(b)) = 0

no_line(b) ==
    winning_move(b, PLAYER_PIECE) = NoCells /\ winning_move(b, AI_PIECE) = NoCells

PlayerFirstClicks == <<4, 1, 6, 2, 1, 4, 3, 0, 2, 3, 6, 6, 1, 1, 0, 0, 0, 5, 5, 5, 4>>
AIFirstClicks == <<4, 1, 6, 0, 1, 1, 3, 0, 4, 0, 0, 3, 2, 6, 6, 4, 2, 6, 5, 5, 5>>

EndgameDepth == 2

\* The main loop run on the first n clicks of a list: the board when the
\* Player is to move next (or when a line ends the game).
RECURSIVE replay(_, _, _, _, _)
replay(b, t, clicks, i, n) ==
    IF ~no_line(b) \/ board_full(b) THEN b
    ELSE IF t = AI
    THEN LET r == minimax(b, EndgameDepth, -inf, inf, TRUE, search_state(EmptyTable, 0))
         IN replay(drop_piece(b, get_next_open_row(b, r.col), r.col, AI_PIECE),
                   PLAYER, clicks, i, n)
    ELSE IF i > n THEN b
    ELSE replay(drop_piece(b, get_next_open_row(b, clicks[i]), clicks[i], PLAYER_PIECE),
                AI, clicks, i + 1, n)

EndgameBoards ==
    { replay(create_board, PLAYER, PlayerFirstClicks, 1, Len(PlayerFirstClicks) - MaxMoves),
      replay(create_board, AI, AIFirstClicks, 1, Len(AIFirstClicks) - MaxMoves) }

InitEndgame ==
    /\ board \in EndgameBoards
    /\ game_over = FALSE
    /\ search_depth = EndgameDepth
    /\ turn = PLAYER
    /\ transposition_table = EmptyTable
    /\ win_coords = NoCells
    /\ result = ""
    /\ pc = "loop"
    /\ plies = 0
    /\ last_call = NoCall
    /\ prev_call = NoCall
    /\ runs = 0

SpecEndgame == InitEndgame /\ [][Next]_vars

----------------------------------------------------------------------------
(* The search applied to given positions                                   *)
(*                                                                         *)
(* SpecSearch draws a position (a board and the side to move) and a depth, *)
(* and applies minimax to it: from a cleared table or from the table an    *)
(* earlier call left, and, as the recursion does, on the board after one   *)
(* more drop with the depth one less.                                      *)

\* Bounds: the deepest search, the calls made on one input, and the drops
\* followed below the position drawn.
MaxDepth == 4
MaxRuns == 2
MaxDescents == 1

other(t) == (t + 1) % 2
piece_of(t) == IF t = AI THEN AI_PIECE ELSE PLAYER_PIECE

\* The position after the first n drops of a game (the sides alternate).
RECURSIVE play(_, _, _, _, _)
play(b, t, moves, i, n) ==
    IF i > n THEN [board |-> b, turn |-> t]
    ELSE play(drop_piece(b, get_next_open_row(b, moves[i]), moves[i], piece_of(t)),
              other(t), moves, i + 1, n)

\* The lines of play the positions are the ends of.  The AI stacks column 1
\* while the Player lines up 2-3-4 on the bottom row; the Player lines up
\* 3-4-5 with column 2 taken; the Player lines up 2-3-4 with both ends open.
SearchLines ==
    { [first |-> AI, moves |-> <<1, 2>>],
      [first |-> AI, moves |-> <<1, 2, 1, 3, 1, 4>>],
      [first |-> AI, moves |-> <<1, 2, 1, 3, 1, 4, 1>>],
      [first |-> PLAYER, moves |-> <<3, 3, 4, 2, 5>>],
      [first |-> PLAYER, moves |-> <<3, 3, 4, 2, 5, 0>>],
      [first |-> PLAYER, moves |-> <<3, 3, 4, 2, 5, 0, 6>>],
      [first |-> PLAYER, moves |-> <<3, 3, 2, 2, 4>>] }

\* ... and the two full boards without a line.
SearchPositions ==
    { play(create_board, g.first, g.moves, 1, Len(g.moves)) : g \in SearchLines }
    \cup { [board |-> replay(create_board, PLAYER, PlayerFirstClicks, 1,
                             Len(PlayerFirstClicks)), turn |-> PLAYER],
           [board |-> replay(create_board, AI, AIFirstClicks, 1,
                             Len(AIFirstClicks)), turn |-> AI] }

InitSearch ==
    /\ \E p \in SearchPositions : board = p.board /\ turn = p.turn
    /\ search_depth \in 0 .. MaxDepth
    /\ game_over = FALSE
    /\ transposition_table = EmptyTable
    /\ win_coords = NoCells
    /\ result = ""
    /\ pc = "search"
    /\ plies = 0
    /\ last_call = NoCall
    /\ prev_call = NoCall
    /\ runs = 0

\* minimax(board, search_depth, -inf, inf, maximizing) with the table as it is
Search(seed) ==
    /\ pc = "search"
    /\ runs < MaxRuns
    /\ \E r \in {minimax(board, search_depth, -inf, inf, turn = AI,
                         search_state(transposition_table, seed))} :
         /\ transposition_table' = r.st.tt
         /\ last_call' = call_record(board, search_depth, -inf, inf, turn = AI,
                                     transposition_table, seed, r)
    /\ prev_call' = last_call
    /\ runs' = runs + 1
    /\ UNCHANGED <<board, game_over, turn, search_depth, win_coords, result, pc, plies>>

\* transposition_table.clear() between two calls
ClearTable ==
    /\ pc = "search"
    /\ transposition_table # EmptyTable
    /\ transposition_table' = clear_table(transposition_table)
    /\ UNCHANGED <<board, game_over, turn, search_depth, win_coords, result, pc,
                   plies, last_call, prev_call, runs>>

\* The step of the recursion: b_copy with the mover's piece dropped in col,
\* depth - 1, the other side to move, the table kept.
Descend(col) ==
    /\ pc = "search"
    /\ plies < MaxDescents
    /\ transposition_table # EmptyTable
    /\ search_depth >= 1
    /\ ~is_terminal_node(board)
    /\ is_valid_location(board, col)
    /\ board' = drop_piece(board, get_next_open_row(board, col), col, piece_of(turn))
    /\ turn' = other(turn)
    /\ search_depth' = search_depth - 1
    /\ plies' = plies + 1
    /\ UNCHANGED <<game_over, transposition_table, win_coords, result, pc,
                   last_call, prev_call, runs>>

NextSearch ==
    \/ \E seed \in 0 .. (RngStates - 1) : Search(seed)
    \/ ClearTable
    \/ \E col \in Cols : Descend(col)

SpecSearch == InitSearch /\ [][NextSearch]_vars

----------------------------------------------------------------------------
(* winning_move applied to given boards                                    *)
(*                                                                         *)
(* SpecWin starts from the empty board or a board full of one piece and    *)
(* writes runs of four cells of either piece along the four directions,    *)
(* then looks for a line of the piece written, as the main loop does after *)
(* a drop.                                                                 *)

MaxStamps == 2

\* horizontal, vertical, positive diagonal, negative diagonal
Directions == <<<<0, 1>>, <<1, 0>>, <<1, 1>>, <<-1, 1>>>>

run_cells(r, c, d) ==
    [i \in 1 .. WINDOW_LENGTH |->
        <<r + (i - 1) * Directions[d][1], c + (i - 1) * Directions[d][2]>>]

on_board(cell) == cell[1] \in Rows /\ cell[2] \in Cols

stamp(b, r, c, d, piece) ==
    LET cells == run_cells(r, c, d)
    IN [rr \in Rows |-> [cc \in Cols |->
           IF \E i \in 1 .. WINDOW_LENGTH : cells[i] = <<rr, cc>>
           THEN piece ELSE b[rr][cc]]]

full_board(piece) == [r \in Rows |-> [c \in Cols |-> piece]]

InitWin ==
    /\ board \in {create_board, full_board(PLAYER_PIECE), full_board(AI_PIECE)}
    /\ turn = PLAYER
    /\ game_over = FALSE
    /\ search_depth = 0
    /\ transposition_table = EmptyTable
    /\ win_coords = NoCells
    /\ result = ""
    /\ pc = "win"
    /\ plies = 0
    /\ last_call = NoCall
    /\ prev_call = NoCall
    /\ runs = 0

\* win_coords = winning_move(board, piece) on the board just written
Stamp(r, c, d, t) ==
    /\ pc = "win"
    /\ plies < MaxStamps
    /\ \A i \in 1 .. WINDOW_LENGTH : on_board(run_cells(r, c, d)[i])
    /\ board' = stamp(board, r, c, d, piece_of(t))
    /\ turn' = t
    /\ win_coords' = winning_move(board', piece_of(t))
    /\ plies' = plies + 1
    /\ UNCHANGED <<game_over, search_depth, transposition_table, result, pc,
                   last_call, prev_call, runs>>

NextWin ==
    \E r \in Rows, c \in Cols, d \in 1 .. Len(Directions), t \in {PLAYER, AI} :
        Stamp(r, c, d, t)

SpecWin == InitWin /\ [][NextWin]_vars

----------------------------------------------------------------------------
(* Claims about the main loop                                              *)

\* C4: the table is empty at the moment of every top-level minimax call and
\* at the start of every game, so no entry outlives the decision that wrote it.
C4_TableEmptyAtCall ==
    /\ last_call.tt_in = EmptyTable
    /\ board = create_board => transposition_table = EmptyTable

\* C4 witness: a second AI decision of a game, made after the first one had
\* filled the table.
C4_Witness ==
    /\ pieces(board, AI_PIECE) >= 2
    /\ last_call.calls > 0
    /\ last_call.tt_in = EmptyTable
    /\ transposition_table # EmptyTable

\* Each column's pieces are rows 0..k-1: no empty cell below a piece.
gravity(b) ==
    \A c \in Cols : \A r \in Rows :
        b[r][c] # EMPTY => \A q \in 0 .. (r - 1) : b[q][c] # EMPTY

\* C9: the game board and every board copy built inside minimax keep their
\* pieces stacked from row 0 without gaps.
C9_Gravity ==
    /\ gravity(board)
    /\ \A b \in last_call.copies : gravity(b)

\* C9 witness: pieces stacked on one another on the game board and in the copies of
\* the last search.
C9_Witness ==
    /\ \E c \in Cols : board[1][c] # EMPTY
    /\ \E b \in last_call.copies : \E c \in Cols : b[2][c] # EMPTY

\* C10: a full board without a line ends the game as a draw: the AI turn
\* never draws its fallback column from an empty list, and the loop never
\* waits for a Player move on a full board.
C10_DrawEndsGame ==
    /\ pc # "crashed"
    /\ (pc = "loop" /\ board_full(board) /\ no_line(board) /\ turn = PLAYER) => game_over

----------------------------------------------------------------------------
(* Reference definitions the claims about the search are stated with      *)

\* The run of four cells from (r, c) in direction d lies on the board and
\* holds the piece in every cell.
is_run(b, piece, d, c, r) ==
    \A i \in 0 .. (WINDOW_LENGTH - 1) :
        /\ (r + i * Directions[d][1]) \in Rows
        /\ (c + i * Directions[d][2]) \in Cols
        /\ b[r + i * Directions[d][1]][c + i * Directions[d][2]] = piece

\* Runs numbered by direction first, then column, then row.
RunNumbers == 0 .. (Len(Directions) * COLUMN_COUNT * ROW_COUNT - 1)
run_d(n) == (n \div (COLUMN_COUNT * ROW_COUNT)) + 1
run_c(n) == (n \div ROW_COUNT) % COLUMN_COUNT
run_r(n) == n % ROW_COUNT

is_run_number(b, piece, n) == is_run(b, piece, run_d(n), run_c(n), run_r(n))

line_exists(b, piece) == \E n \in RunNumbers : is_run_number(b, piece, n)

expected_win(b, piece) ==
    IF line_exists(b, piece)
    THEN LET n == CHOOSE n \in RunNumbers :
                      /\ is_run_number(b, piece, n)
                      /\ \A m \in 0 .. (n - 1) : ~is_run_number(b, piece, m)
         IN run_cells(run_r(n), run_c(n), run_d(n))
    ELSE NoCells

\* Minimax over the same tree with no pruning and no table: every child of
\* every node is searched, in ascending column order, from the same initial
\* column.
RECURSIVE plain_minimax(_, _, _, _)
RECURSIVE plain_loop(_, _, _, _, _, _, _, _)
plain_loop(b, depth, maximizingPlayer, valid_locations, i, value, column, rng) ==
    IF i > Len(valid_locations) THEN <<column, value>>
    ELSE LET col == valid_locations[i]
             b_copy == drop_piece(b, get_next_open_row(b, col), col,
                                  IF maximizingPlayer THEN AI_PIECE ELSE PLAYER_PIECE)
             new_score == plain_minimax(b_copy, depth - 1, ~maximizingPlayer, rng)[2]
             better == IF maximizingPlayer THEN new_score > value ELSE new_score < value
         IN plain_loop(b, depth, maximizingPlayer, valid_locations, i + 1,
                       IF better THEN new_score ELSE value,
                       IF better THEN col ELSE column, rng)

plain_minimax(b, depth, maximizingPlayer, rng) ==
    LET valid_locations == get_valid_locations(b)
        is_terminal == is_terminal_node(b)
    IN IF depth = 0 \/ is_terminal THEN base_case(b, is_terminal)
       ELSE plain_loop(b, depth, maximizingPlayer, valid_locations, 1,
                       IF maximizingPlayer THEN -inf ELSE inf,
                       random_choice(valid_locations, rng), next_rng(rng))

\* The board a table key was made from.
tuple_to_board(t) == [r \in Rows |-> [c \in Cols |-> t[r * COLUMN_COUNT + c + 1]]]

key_of(call) == <<board_to_tuple(call.board), call.depth, call.maximizing>>

called == last_call.calls > 0
from_cleared_table(call) == call.tt_in = EmptyTable
base_case_call(call) == call.depth = 0 \/ is_terminal_node(call.board)

\* The columns of the empty cell of a horizontal window holding three
\* Player pieces.
threat_columns(b) ==
    { c \in Cols : \E k \in 1 .. Len(horizontal_scan) : \E i \in 1 .. WINDOW_LENGTH :
        LET cells == horizontal_scan[k]
        IN /\ cells[i][2] = c
           /\ b[cells[i][1]][c] = EMPTY
           /\ \A j \in (1 .. WINDOW_LENGTH) \ {i} : b[cells[j][1]][cells[j][2]] = PLAYER_PIECE }

\* ... of those, the ones whose empty cell is where a piece dropped lands.
blocking_columns(b) ==
    { c \in Cols : \E k \in 1 .. Len(horizontal_scan) : \E i \in 1 .. WINDOW_LENGTH :
        LET cells == horizontal_scan[k]
        IN /\ cells[i][2] = c
           /\ b[cells[i][1]][c] = EMPTY
           /\ get_next_open_row(b, c) = cells[i][1]
           /\ \A j \in (1 .. WINDOW_LENGTH) \ {i} : b[cells[j][1]][cells[j][2]] = PLAYER_PIECE }

ai_wins_at_once(b) ==
    \E c \in Cols :
        /\ is_valid_location(b, c)
        /\ line_exists(drop_piece(b, get_next_open_row(b, c), c, AI_PIECE), AI_PIECE)

\* The score of the child of a node, searched on its own.
child_score(b, depth, maximizingPlayer, col) ==
    plain_minimax(drop_piece(b, get_next_open_row(b, col), col,
                             IF maximizingPlayer THEN AI_PIECE ELSE PLAYER_PIECE),
                  depth - 1, ~maximizingPlayer, 0)[2]

lowest_best(b, depth, maximizingPlayer, score) ==
    LET best == { c \in Cols : is_valid_location(b, c)
                               /\ child_score(b, depth, maximizingPlayer, c) = score }
    IN IF best = {} THEN None ELSE CHOOSE c \in best : \A q \in best : c <= q

----------------------------------------------------------------------------
(* Claims about the search                                                 *)

\* C1: a call with depth >= 1 from a cleared table returns the column and
\* the score that plain minimax (no pruning, no table) returns on the same
\* board, depth and side.
C1_SameAsPlain ==
    (called /\ from_cleared_table(last_call) /\ last_call.depth >= 1)
    => <<last_call.col, last_call.score>>
         = plain_minimax(last_call.board, last_call.depth, last_call.maximizing,
                         last_call.rng)

same_input(x, y) ==
    /\ x.board = y.board /\ x.depth = y.depth /\ x.alpha = y.alpha
    /\ x.beta = y.beta /\ x.maximizing = y.maximizing

\* C2: two calls on the same input, each from a cleared table, return the
\* same column and score; so does a further call made on the table the
\* first one left.
C2_Repeatable ==
    ( /\ called /\ prev_call.calls > 0
      /\ same_input(last_call, prev_call)
      /\ from_cleared_table(prev_call)
      /\ (from_cleared_table(last_call) \/ last_call.tt_in = prev_call.tt_out) )
    => (last_call.col = prev_call.col /\ last_call.score = prev_call.score)

\* C3 (as stated): every call, base case or not, leaves its result in the
\* table under its (board_tuple, depth, maximizing) key.
C3_EveryCallStores ==
    called =>
        /\ key_of(last_call) \in DOMAIN last_call.tt_out
        /\ last_call.tt_out[key_of(last_call)] = <<last_call.col, last_call.score>>

\* C3 (amended): a call that reaches the recursive case leaves its result
\* under its key; a base-case call (depth 0 or a terminal board) leaves the
\* table as it found it, and no entry of the table belongs to a base case.
C3_RecursiveCallsStore ==
    called =>
        /\ IF base_case_call(last_call)
           THEN last_call.tt_out = last_call.tt_in
           ELSE /\ key_of(last_call) \in DOMAIN last_call.tt_out
                /\ last_call.tt_out[key_of(last_call)] = <<last_call.col, last_call.score>>
        /\ \A k \in DOMAIN last_call.tt_out :
               k[2] >= 1 /\ ~is_terminal_node(tuple_to_board(k[1]))

C3_Witness ==
    /\ called /\ last_call.depth >= 2 /\ ~base_case_call(last_call)
    /\ key_of(last_call) \notin DOMAIN last_call.tt_in
    /\ key_of(last_call) \in DOMAIN last_call.tt_out
    /\ Cardinality(DOMAIN last_call.tt_out) > 1

ai_to_block(call) ==
    /\ call.calls > 0 /\ call.maximizing /\ from_cleared_table(call)
    /\ no_line(call.board)

C6_TerminalLine ==
    (called /\ (line_exists(last_call.board, AI_PIECE)
                \/ line_exists(last_call.board, PLAYER_PIECE)))
    => /\ last_call.col = None
       /\ last_call.score = IF line_exists(last_call.board, AI_PIECE) THEN inf ELSE -inf
       /\ last_call.calls = 1
       /\ last_call.copies = {}
       /\ last_call.tt_out = last_call.tt_in

C6_Witness ==
    /\ called /\ line_exists(last_call.board, PLAYER_PIECE)
    /\ last_call.depth >= 1 /\ last_call.tt_in # EmptyTable
    /\ last_call.col = None /\ last_call.score = -inf

\* C7: the column returned by a call that reaches the recursive case is the
\* lowest of the columns whose child has the score returned.
C7_LowestIndex ==
    (called /\ from_cleared_table(last_call) /\ ~base_case_call(last_call))
    => last_call.col = lowest_best(last_call.board, last_call.depth,
                                   last_call.maximizing, last_call.score)

----------------------------------------------------------------------------
(* Claim about winning_move                                                *)

\* C8: winning_move returns nothing when the piece has no run of four on
\* the board, and otherwise the four cells of the first run in scan order:
\* horizontal, vertical, positive diagonal, negative diagonal, each by
\* column and then by row.
C8_WinningMove ==
    (pc = "win" /\ plies > 0)
    => /\ win_coords = expected_win(board, piece_of(turn))
       /\ winning_move(board, piece_of(other(turn)))
            = expected_win(board, piece_of(other(turn)))

C8_Witness ==
    /\ pc = "win" /\ plies > 0
    /\ win_coords # NoCells
    /\ win_coords[1][1] > win_coords[2][1]
    /\ Cardinality({n \in RunNumbers : is_run_number(board, piece_of(turn), n)}) >= 2

====
